---- MODULE Spec2Model ----
(***************************************************************************)
(* Challenge progress pipeline of the fitness application.                 *)
(*                                                                         *)
(* The committed database state is the three tables activities,            *)
(* challenges and challenge_progress.  The trigger                         *)
(* update_challenge_progress_trigger (AFTER INSERT OR UPDATE OR DELETE ON  *)
(* activities FOR EACH ROW) runs update_challenge_progress(), which        *)
(* rewrites the affected user's challenge_progress rows of every active    *)
(* challenge with calculate_challenge_progress().                          *)
(*                                                                         *)
(* Spec     : the client requests executed one at a time; each request is  *)
(*            one statement, hence one transaction (write, trigger,        *)
(*            commit).                                                     *)
(* SpecTx   : two database sessions whose transactions interleave step by  *)
(*            step (write, trigger, commit or rollback).                   *)
(* SpecCalc : calculate_challenge_progress on drawn tables, and the        *)
(*            recalculation of the migrations.                             *)
(* SpecRank : the rankings screen fetching over changing tables.           *)
(* SpecAdd  : the sheet that logs an activity.                             *)
(* SpecCreate : the sheet that creates a challenge.                        *)
(* SpecAdmin : challenge administration next to the activity requests.     *)
(* SpecAuth : activity requests of any signed-in user under the row level  *)
(*            security policies.                                           *)
(* SpecEmit : the notifications table and its emitters.                    *)
(* SpecInbox : the notifications screen.                                   *)
(* SpecStats : the overall-activity view.                                  *)
(***************************************************************************)
EXTENDS Integers, FiniteSets, Sequences, TLC

VARIABLES
  activities,   \* table activities: set of rows
  challenges,   \* table challenges: id -> [start_date, end_date, status]
  progress,     \* table challenge_progress: set of rows
  tx,           \* open transaction of each database session
  last,         \* history: the last committed request
  session,      \* the signed-in user of the client (supabase.auth.getUser)
  screen,       \* state of the rankings screen (RankingsScreen)
  sheet,        \* state of the sheets AddActivitySheet and CreateChallengeSheet
  notifications, \* table notifications: set of rows
  events,       \* table events: set of rows
  inbox,        \* state of the notifications screen (NotificationsScreen)
  overall       \* state of the overall-activity view (OverallActivity)

vars == <<activities, challenges, progress, tx, last, session, screen, sheet,
          notifications, events, inbox, overall>>

\* The client's state.
ui == <<session, screen, sheet>>

\* The notifications, the events and the two views that show them and the
\* activity totals.
feed == <<notifications, events, inbox, overall>>

---------------------------------------------------------------------------
(* Bounds *)

MaxActs == 2        \* activity ids are 1..MaxActs
TicksPerDay == 2    \* instants per day of a timestamptz value

Users == {"u1", "u2"}
ChallengeIds == {"c1", "c2"}
TxIds == {"t1", "t2"}
ActIds == 1..MaxActs
Days == 0..2         \* calendar days: before, inside and after the windows
Timestamps == 0..(3 * TicksPerDay - 1)

Ts(day, tick) == day * TicksPerDay + tick

\* The time windows of the two challenges of Spec and SpecTx: c1 covers days
\* 1..2 and starts after midnight, c2 covers day 1 only; day 0 is in neither.
Windows ==
  [c \in ChallengeIds |->
     IF c = "c1" THEN [start_date |-> Ts(1, 1), end_date |-> Ts(2, 0)]
                 ELSE [start_date |-> Ts(1, 0), end_date |-> Ts(1, 1)]]

\* The (user, challenge) pairs that hold a challenge_progress row in Spec.
Enrolled == {<<"u1", "c1">>, <<"u1", "c2">>, <<"u2", "c1">>}

\* created_at as stamped by now() in Spec and SpecTx
Now == Ts(0, 1)

---------------------------------------------------------------------------
(* Tables *)

Statuses == {"upcoming", "active", "completed"}

\* The NULL row: OLD of an INSERT, NEW of a DELETE.
NoRow == [id |-> 0, user_id |-> "NULL", activity_date |-> 0, created_at |-> 0]

\* timestamptz::date
ToDate(ts) == ts \div TicksPerDay

\* A window test without the ::date casts: the activity date, taken at
\* midnight, is compared with the timestamps themselves.
InWindow_uncast(a, ch) ==
  /\ Ts(a.activity_date, 0) >= ch.start_date
  /\ Ts(a.activity_date, 0) <= ch.end_date

\* WHERE activity_date >= v_start_date AND activity_date <= v_end_date
InWindow(a, ch) ==
  LET v_start_date == ToDate(ch.start_date)
      v_end_date == ToDate(ch.end_date)
  IN  /\ a.activity_date >= v_start_date
      /\ a.activity_date <= v_end_date

calculate_challenge_progress(acts, chs, p_user_id, p_challenge_id) ==
  Cardinality({a \in acts :
                 /\ a.user_id = p_user_id
                 /\ InWindow(a, chs[p_challenge_id])})

\* v_user_id of the first revision of the trigger function: NEW.user_id for
\* every operation (NEW is NULL in a DELETE trigger).
AffectedUser_first(TG_OP, OLD_row, NEW_row) == NEW_row.user_id

\* v_user_id
AffectedUser(TG_OP, OLD_row, NEW_row) ==
  IF TG_OP = "DELETE" THEN OLD_row.user_id ELSE NEW_row.user_id

\* Rows matched by a trigger that does not look at the challenge's status.
TargetRows_anyStatus(TG_OP, OLD_row, NEW_row, chs, prog) ==
  {cp \in prog : cp.user_id = AffectedUser(TG_OP, OLD_row, NEW_row)}

\* Rows matched by a trigger that looks only at the challenges whose window
\* contains the written activity's date.
TargetRows_window(TG_OP, OLD_row, NEW_row, chs, prog) ==
  {cp \in prog :
     /\ chs[cp.challenge_id].status = "active"
     /\ cp.user_id = AffectedUser(TG_OP, OLD_row, NEW_row)
     /\ InWindow(IF TG_OP = "DELETE" THEN OLD_row ELSE NEW_row, chs[cp.challenge_id])}

\* Rows matched by the UPDATE of update_challenge_progress():
\* FROM challenges c WHERE c.id = cp.challenge_id AND c.status = 'active'
\* AND cp.user_id = v_user_id
TargetRows(TG_OP, OLD_row, NEW_row, chs, prog) ==
  {cp \in prog :
     /\ chs[cp.challenge_id].status = "active"
     /\ cp.user_id = AffectedUser(TG_OP, OLD_row, NEW_row)}

\* The new versions of the matched rows:
\* SET current_value = calculate_challenge_progress(cp.user_id, cp.challenge_id)
RowWrites(TG_OP, OLD_row, NEW_row, acts, chs, prog) ==
  {[cp EXCEPT !.current_value =
        calculate_challenge_progress(acts, chs, cp.user_id, cp.challenge_id)] :
     cp \in TargetRows(TG_OP, OLD_row, NEW_row, chs, prog)}

\* A trigger function that adds the new row versions and keeps the old ones.
update_challenge_progress_append(TG_OP, OLD_row, NEW_row, acts, chs, prog) ==
  prog \cup RowWrites(TG_OP, OLD_row, NEW_row, acts, chs, prog)

\* challenge_progress after the trigger function ran on table contents acts.
update_challenge_progress(TG_OP, OLD_row, NEW_row, acts, chs, prog) ==
  (prog \ TargetRows(TG_OP, OLD_row, NEW_row, chs, prog))
    \cup RowWrites(TG_OP, OLD_row, NEW_row, acts, chs, prog)

\* A recalculation that adds the count to the stored value instead of
\* assigning it.
RecalculateAll_accumulate(acts, chs, prog) ==
  {IF chs[cp.challenge_id].status = "active"
     THEN [cp EXCEPT !.current_value =
             @ + calculate_challenge_progress(acts, chs, cp.user_id, cp.challenge_id)]
     ELSE cp : cp \in prog}

\* The one-off statement of the migration: every row of an active challenge.
RecalculateAll(acts, chs, prog) ==
  {IF chs[cp.challenge_id].status = "active"
     THEN [cp EXCEPT !.current_value =
             calculate_challenge_progress(acts, chs, cp.user_id, cp.challenge_id)]
     ELSE cp : cp \in prog}

---------------------------------------------------------------------------
(* State after the migrations *)

IdleTx == [pc |-> "idle", op |-> "NONE", OLD_row |-> NoRow, NEW_row |-> NoRow,
           writes |-> {}, overlap |-> FALSE]

NoLast == [op |-> "NONE", user |-> "NULL", cid |-> "none", writes |-> {},
           overlap |-> FALSE, prev |-> <<>>,
           uid |-> <<>>, target |-> 0, error |-> <<>>, given |-> <<>>]

\* null, and a value that is present
Null == <<>>
Some(x) == <<x>>

\* The rankings screen is not on display.
Unmounted == Null

\* useState of RankingsScreen; pc is the position of fetchData ("idle": no
\* fetch in flight).
Mounted ==
  [pc |-> "idle", progress |-> <<>>, challenge |-> Null, loading |-> TRUE,
   error |-> Null, refreshing |-> FALSE, currentUserRank |-> Null]

\* useState of AddActivitySheet
AddActivityForm ==
  [title |-> <<>>, activity_date |-> Now, duration_minutes |-> <<"6", "0">>]

\* A form whose status starts as active.
CreateChallengeForm_active ==
  [title |-> <<>>, subtitle |-> <<>>, description |-> <<>>,
   start_date |-> Now, end_date |-> Now + 30 * TicksPerDay,
   target_value |-> <<>>, unit |-> <<>>,
   rules |-> <<<<>>, <<>>, <<>>>>, rewards |-> <<<<>>, <<>>, <<>>>>,
   status |-> "active"]

\* useState of CreateChallengeSheet
CreateChallengeForm ==
  [title |-> <<>>, subtitle |-> <<>>, description |-> <<>>,
   start_date |-> Now, end_date |-> Now + 30 * TicksPerDay,
   target_value |-> <<>>, unit |-> <<>>,
   rules |-> <<<<>>, <<>>, <<>>>>, rewards |-> <<<<>>, <<>>, <<>>>>,
   status |-> "upcoming"]

\* No sheet is on display.
ClosedSheets == Null

\* The sheets as they open.
OpenSheets ==
  [add |-> [loading |-> FALSE, error |-> Null, form |-> AddActivityForm],
   create |-> [loading |-> FALSE, error |-> Null, form |-> CreateChallengeForm]]

ZeroRows(pairs) ==
  {[user_id |-> p[1], challenge_id |-> p[2], current_value |-> 0] : p \in pairs}

\* No activity is logged yet, both challenges exist as created (upcoming), and
\* the enrolled pairs hold a row at 0.
Init ==
  /\ activities = {}
  /\ challenges = [c \in ChallengeIds |->
                     [start_date |-> Windows[c].start_date,
                      end_date |-> Windows[c].end_date,
                      status |-> "upcoming"]]
  /\ progress = ZeroRows(Enrolled)
  /\ tx = [t \in TxIds |-> IdleTx]
  /\ last = NoLast
  /\ session = Null
  /\ screen = Unmounted
  /\ sheet = ClosedSheets
  /\ notifications = {}
  /\ events = {}
  /\ inbox = Unmounted
  /\ overall = Unmounted

FreeIds(acts) == ActIds \ {a.id : a \in acts}

NextId(acts) == CHOOSE i \in FreeIds(acts) : \A j \in FreeIds(acts) : i <= j

\* The owner of the activities row a statement wrote.
Owner(OLD_row, NEW_row) ==
  IF OLD_row # NoRow THEN OLD_row.user_id ELSE NEW_row.user_id

\* History record of a committed activity statement.
Committed(TG_OP, OLD_row, NEW_row, writes, overlap) ==
  [NoLast EXCEPT !.op = TG_OP, !.user = Owner(OLD_row, NEW_row),
                 !.writes = writes, !.overlap = overlap]

---------------------------------------------------------------------------
(* Requests, one at a time: each is one statement in its own transaction *)

\* The statement, its AFTER ... FOR EACH ROW trigger and the commit.
Request(TG_OP, OLD_row, NEW_row) ==
  /\ activities' = (activities \ {OLD_row}) \cup ({NEW_row} \ {NoRow})
  /\ progress' = update_challenge_progress(TG_OP, OLD_row, NEW_row,
                                           activities', challenges, progress)
  /\ last' = Committed(TG_OP, OLD_row, NEW_row,
                       RowWrites(TG_OP, OLD_row, NEW_row,
                                 activities', challenges, progress), FALSE)
  /\ UNCHANGED <<challenges, tx, feed>>

\* A request that leaves the client's state as it is.
Statement(TG_OP, OLD_row, NEW_row) ==
  /\ Request(TG_OP, OLD_row, NEW_row)
  /\ UNCHANGED ui

\* AddActivitySheet.handleSubmit: insert into activities.
InsertActivity(u, d) ==
  /\ FreeIds(activities) # {}
  /\ Statement("INSERT", NoRow,
               [id |-> NextId(activities), user_id |-> u,
                activity_date |-> d, created_at |-> Now])

\* UPDATE of one activities row (the owner stays, the date may move).
UpdateActivity(OLD_row, d) ==
  /\ OLD_row \in activities
  /\ Statement("UPDATE", OLD_row, [OLD_row EXCEPT !.activity_date = d])

\* handleDeleteActivity: delete from activities where id = activity.id.
DeleteActivity(OLD_row) ==
  /\ OLD_row \in activities
  /\ Statement("DELETE", OLD_row, NoRow)

\* admin handleStatusChange: update challenges set status = newStatus.
handleStatusChange(challengeId, newStatus) ==
  /\ challenges' = [challenges EXCEPT ![challengeId].status = newStatus]
  /\ last' = [NoLast EXCEPT !.op = "STATUS", !.cid = challengeId]
  /\ UNCHANGED <<activities, progress, tx, ui, feed>>

Next ==
  \/ \E u \in Users, d \in Days : InsertActivity(u, d)
  \/ \E a \in activities, d \in Days : UpdateActivity(a, d)
  \/ \E a \in activities : DeleteActivity(a)
  \/ \E c \in ChallengeIds, s \in Statuses : handleStatusChange(c, s)

Spec == Init /\ [][Next]_vars


---------------------------------------------------------------------------
(* Two database sessions: transactions step by step (READ COMMITTED) *)

ActivityOps == {"INSERT", "UPDATE", "DELETE"}

Other(t) == TxIds \ {t}

Open(t) == tx[t].pc # "idle"

\* The activities a transaction sees: the committed rows and its own write.
View(t) ==
  (activities \ {tx[t].OLD_row}) \cup ({tx[t].NEW_row} \ {NoRow})

SameKey(r, w) == r.user_id = w.user_id /\ r.challenge_id = w.challenge_id

\* A session whose recomputation is a second request after the write: the
\* activity write is committed on its own.
StatementVisible_autocommit(acts, view) == view

\* The committed activities while the writing transaction is still open: the
\* AFTER ... FOR EACH ROW trigger runs inside the transaction of the statement
\* that fired it, so the write is not visible before the commit.
StatementVisible(acts, view) == acts

\* A write of challenge_progress that takes no row lock.
RowsUnlocked_nolock(t, rows) == TRUE

\* The UPDATE of challenge_progress locks the rows it matches until the end of
\* the transaction; it waits while another open transaction holds one of them.
RowsUnlocked(t, rows) ==
  \A o \in Other(t) : \A w \in tx[o].writes : \A r \in rows : ~SameKey(r, w)

\* The statement of the transaction: the write of one activities row.  The row
\* of an UPDATE or DELETE is locked; a second writer of it waits.
TxWrite(t, TG_OP, OLD_row, NEW_row) ==
  /\ ~Open(t)
  /\ \A o \in Other(t) : Open(o) /\ OLD_row # NoRow => tx[o].OLD_row # OLD_row
  /\ tx' = [tx EXCEPT ![t] =
              [pc |-> "written", op |-> TG_OP, OLD_row |-> OLD_row,
               NEW_row |-> NEW_row, writes |-> {}, overlap |-> FALSE]]
  /\ activities' = StatementVisible(activities,
                     (activities \ {OLD_row}) \cup ({NEW_row} \ {NoRow}))
  /\ UNCHANGED <<challenges, progress, last, ui, feed>>

TxInsert(t, u, d) ==
  LET used == activities \cup {tx[o].NEW_row : o \in Other(t)}
  IN  /\ FreeIds(used) # {}
      /\ TxWrite(t, "INSERT", NoRow,
                 [id |-> NextId(used), user_id |-> u,
                  activity_date |-> d, created_at |-> Now])

TxUpdate(t, OLD_row, d) ==
  /\ OLD_row \in activities
  /\ TxWrite(t, "UPDATE", OLD_row, [OLD_row EXCEPT !.activity_date = d])

TxDelete(t, OLD_row) ==
  /\ OLD_row \in activities
  /\ TxWrite(t, "DELETE", OLD_row, NoRow)

\* The trigger function inside the transaction: it reads the committed rows
\* and the transaction's own write, and keeps its new row versions pending.
TxTrigger(t) ==
  /\ tx[t].pc = "written"
  /\ RowsUnlocked(t, TargetRows(tx[t].op, tx[t].OLD_row, tx[t].NEW_row,
                                challenges, progress))
  /\ tx' = [tx EXCEPT ![t].pc = "triggered",
                      ![t].writes = RowWrites(tx[t].op, tx[t].OLD_row, tx[t].NEW_row,
                                              View(t), challenges, progress)]
  /\ UNCHANGED <<activities, challenges, progress, last, ui, feed>>

\* The trigger function raises an error: the statement is rolled back.
TxTriggerFail(t) ==
  /\ tx[t].pc = "written"
  /\ tx' = [tx EXCEPT ![t] = IdleTx]
  /\ last' = [NoLast EXCEPT !.op = "ROLLBACK"]
  /\ UNCHANGED <<activities, challenges, progress, ui, feed>>

\* Commit: the activity write and the new challenge_progress row versions
\* become visible together.
TxCommit(t) ==
  /\ tx[t].pc = "triggered"
  /\ activities' = View(t)
  /\ progress' = {cp \in progress : \A w \in tx[t].writes : ~SameKey(cp, w)}
                   \cup tx[t].writes
  /\ last' = Committed(tx[t].op, tx[t].OLD_row, tx[t].NEW_row,
                       tx[t].writes, tx[t].overlap)
  /\ tx' = [o \in TxIds |->
              IF o = t THEN IdleTx
              ELSE IF Open(o) /\ Owner(tx[o].OLD_row, tx[o].NEW_row)
                                   = Owner(tx[t].OLD_row, tx[t].NEW_row)
                     THEN [tx[o] EXCEPT !.overlap = TRUE]
                     ELSE tx[o]]
  /\ UNCHANGED <<challenges, ui, feed>>

\* Users and days of the two sessions.
TxUsers == Users
TxDays == {0, 1}

\* Both challenges are active and every enrolled row is fresh (no activity yet).
InitTx ==
  /\ activities = {}
  /\ challenges = [c \in ChallengeIds |->
                     [start_date |-> Windows[c].start_date,
                      end_date |-> Windows[c].end_date,
                      status |-> "active"]]
  /\ progress = ZeroRows(Enrolled)
  /\ tx = [t \in TxIds |-> IdleTx]
  /\ last = NoLast
  /\ session = Null
  /\ screen = Unmounted
  /\ sheet = ClosedSheets
  /\ notifications = {}
  /\ events = {}
  /\ inbox = Unmounted
  /\ overall = Unmounted

NextTx ==
  \E t \in TxIds :
    \/ \E u \in TxUsers, d \in TxDays : TxInsert(t, u, d)
    \/ \E a \in activities, d \in TxDays : TxUpdate(t, a, d)
    \/ \E a \in activities : TxDelete(t, a)
    \/ TxTrigger(t)
    \/ TxTriggerFail(t)
    \/ TxCommit(t)

SpecTx == InitTx /\ [][NextTx]_vars


---------------------------------------------------------------------------
(* calculate_challenge_progress on drawn tables *)

\* created_at values of the drawn activities: the first and the last instant.
CreatedAts == {Ts(0, 0), Ts(2, TicksPerDay - 1)}

DrawnRows == [user_id : Users, activity_date : Days, created_at : CreatedAts]

\* Any activities table of at most MaxActs rows, any window of c1 with
\* end_date > start_date; both challenges active, every enrolled row at 0.
InitCalc ==
  /\ \E k \in 0..MaxActs : \E f \in [1..k -> DrawnRows] :
       activities = {[id |-> i, user_id |-> f[i].user_id,
                      activity_date |-> f[i].activity_date,
                      created_at |-> f[i].created_at] : i \in 1..k}
  /\ \E s \in Timestamps, e \in Timestamps :
       /\ e > s
       /\ challenges = [c \in ChallengeIds |->
                          [start_date |-> IF c = "c1" THEN s ELSE Windows[c].start_date,
                           end_date |-> IF c = "c1" THEN e ELSE Windows[c].end_date,
                           status |-> "active"]]
  /\ progress = ZeroRows(Enrolled)
  /\ tx = [t \in TxIds |-> IdleTx]
  /\ last = NoLast
  /\ session = Null
  /\ screen = Unmounted
  /\ sheet = ClosedSheets
  /\ notifications = {}
  /\ events = {}
  /\ inbox = Unmounted
  /\ overall = Unmounted

\* The DO block of the migrations: recalculate all challenge progress.  Both
\* revisions of the trigger migration end with it, so it runs twice.
RecalculateAllProgress ==
  /\ last.op \in {"NONE", "RECALC"}
  /\ progress' = RecalculateAll(activities, challenges, progress)
  /\ last' = [NoLast EXCEPT !.op = IF last.op = "NONE" THEN "RECALC" ELSE "RECALC2"]
  /\ UNCHANGED <<activities, challenges, tx, ui, feed>>

NextCalc == RecalculateAllProgress

SpecCalc == InitCalc /\ [][NextCalc]_vars


---------------------------------------------------------------------------
(* The rankings screen *)

\* .eq('status', 'active') on challenges
ActiveChallenges(chs) == {c \in DOMAIN chs : chs[c].status = "active"}

\* .eq('challenge_id', id) on challenge_progress
ProgressOf(prog, id) == {cp \in prog : cp.challenge_id = id}

\* An order by current_value with ascending: true.
Ordered_ascending(data) ==
  \A i \in 1..Len(data) : \A j \in 1..Len(data) :
    i < j => data[i].current_value <= data[j].current_value

\* .order('current_value', { ascending: false })
Ordered(data) ==
  \A i \in 1..Len(data) : \A j \in 1..Len(data) :
    i < j => data[i].current_value >= data[j].current_value

\* .select('current_value, user_id, profiles (...)')
Select(cp) == [user_id |-> cp.user_id, current_value |-> cp.current_value]

\* The results the progress query can return for the rows it matches: each
\* row once, in an order the ORDER BY clause allows (rows of equal
\* current_value come in any order).
QueryResults(rows) ==
  {[i \in DOMAIN data |-> Select(data[i])] :
     data \in {d \in [1..Cardinality(rows) -> rows] :
                 /\ \A i \in DOMAIN d : \A j \in DOMAIN d : d[i] = d[j] => i = j
                 /\ Ordered(d)}}

\* Array.prototype.findIndex with (p) => p.user_id === id; indexes from 0
findIndex(data, id) ==
  LET hits == {i \in 1..Len(data) : data[i].user_id = id}
  IN  IF hits = {} THEN -1
      ELSE (CHOOSE i \in hits : \A j \in hits : i <= j) - 1

\* Array.prototype.slice(from, to); indexes from 0
slice(data, from, to) ==
  LET end == IF to < Len(data) THEN to ELSE Len(data)
  IN  [i \in 1..(IF end > from THEN end - from ELSE 0) |-> data[from + i]]

\* A rank set from the index without the test for -1.
UserRank_unguarded(userRank) == Some(userRank + 1)

\* userRank !== -1 ? userRank + 1 : null
UserRank(userRank) == IF userRank # -1 THEN Some(userRank + 1) ELSE Null

top3(scr) == slice(scr.progress, 0, 3)

remainingRanks(scr) == slice(scr.progress, 3, Len(scr.progress))

\* TopThree: the podium shows top3[0] as first place and top3[1], top3[2]
\* with the badges 2 and 3.
TopThree(scr) ==
  [i \in 1..Len(top3(scr)) |->
     [user_id |-> top3(scr)[i].user_id, rank |-> i,
      current_value |-> top3(scr)[i].current_value]]

\* A list item whose number continues at 3.
renderRankItem_from3(item, index) ==
  [user_id |-> item.user_id, rank |-> index + 3,
   current_value |-> item.current_value]

\* renderRankItem: <Text style={styles.rank}>{index + 4}</Text>
renderRankItem(item, index) ==
  [user_id |-> item.user_id, rank |-> index + 4,
   current_value |-> item.current_value]

\* The loading view and the error view replace the list.
ListShown(scr) == ~scr.loading /\ scr.error = Null /\ scr.challenge # Null

\* The entries on the screen: the podium, then the FlatList of remainingRanks.
Entries(scr) ==
  TopThree(scr) \o
    [i \in 1..Len(remainingRanks(scr)) |-> renderRankItem(remainingRanks(scr)[i], i - 1)]

\* CurrentRankBanner: currentUserRank ? banner : null
CurrentRankBanner(scr) ==
  IF scr.currentUserRank # Null /\ scr.currentUserRank # Some(0)
    THEN scr.currentUserRank ELSE Null

\* A screen that keeps the list it already holds.
setProgress_keep(scr, progressData) ==
  IF scr.progress # <<>> THEN scr ELSE [scr EXCEPT !.progress = progressData]

\* setProgress(progressData || [])
setProgress(scr, progressData) == [scr EXCEPT !.progress = progressData]

\* if (user) setCurrentUserRank(...)
setCurrentUserRank(scr, user, progressData) ==
  IF user # Null
    THEN [scr EXCEPT !.currentUserRank = UserRank(findIndex(progressData, user[1]))]
    ELSE scr

\* A fetchData that ends without the finally block.
Finally_skipped(scr) == [scr EXCEPT !.pc = "idle"]

\* finally: setLoading(false); setRefreshing(false); fetchData is over.
Finally(scr) == [scr EXCEPT !.pc = "idle", !.loading = FALSE, !.refreshing = FALSE]

\* catch: setError('Failed to load rankings')
Catch(scr) == Finally([scr EXCEPT !.error = Some("Failed to load rankings")])

\* fetchData, first query: getUser or the challenges query fails.
fetchChallengesError ==
  /\ screen.pc = "challenges"
  /\ screen' = Catch(screen)
  /\ last' = [NoLast EXCEPT !.op = "FETCH_FAILED"]
  /\ UNCHANGED <<activities, challenges, progress, tx, session, sheet, feed>>

\* fetchData, first query: no challenge is active.
fetchChallengesNone ==
  /\ screen.pc = "challenges"
  /\ ActiveChallenges(challenges) = {}
  /\ screen' = Finally([screen EXCEPT !.error = Some("No active challenge found")])
  /\ last' = [NoLast EXCEPT !.op = "NO_CHALLENGE"]
  /\ UNCHANGED <<activities, challenges, progress, tx, session, sheet, feed>>

\* fetchData, first query: setChallenge(challenges[0]); the query has no
\* ORDER BY, so any active challenge can come first.
fetchChallenges ==
  /\ screen.pc = "challenges"
  /\ \E c \in ActiveChallenges(challenges) :
       /\ screen' = [screen EXCEPT !.challenge = Some(c), !.pc = "progress"]
       /\ last' = [NoLast EXCEPT !.op = "CHALLENGE", !.cid = c]
  /\ UNCHANGED <<activities, challenges, progress, tx, session, sheet, feed>>

\* fetchData, second query: the challenge_progress query fails.
fetchProgressError ==
  /\ screen.pc = "progress"
  /\ screen' = Catch(screen)
  /\ last' = [NoLast EXCEPT !.op = "FETCH_FAILED"]
  /\ UNCHANGED <<activities, challenges, progress, tx, session, sheet, feed>>

\* fetchData, second query: the rows of challenges[0] ordered by
\* current_value, then setProgress and setCurrentUserRank.
fetchProgress ==
  /\ screen.pc = "progress"
  /\ \E progressData \in QueryResults(ProgressOf(progress, screen.challenge[1])) :
       screen' = Finally(setCurrentUserRank(setProgress(screen, progressData),
                                            session, progressData))
  /\ last' = [NoLast EXCEPT !.op = "FETCH", !.cid = screen.challenge[1],
                           !.prev = screen.progress]
  /\ UNCHANGED <<activities, challenges, progress, tx, session, sheet, feed>>

\* handleRefresh (RefreshControl of the list)
handleRefresh ==
  /\ screen.pc = "idle"
  /\ ListShown(screen)
  /\ screen' = [screen EXCEPT !.refreshing = TRUE, !.pc = "challenges"]
  /\ last' = [NoLast EXCEPT !.op = "REFRESH"]
  /\ UNCHANGED <<activities, challenges, progress, tx, session, sheet, feed>>

\* "Try Again" of the error view: onPress={fetchData}
tryAgain ==
  /\ screen.pc = "idle"
  /\ ~screen.loading /\ ~ListShown(screen)
  /\ screen' = [screen EXCEPT !.pc = "challenges"]
  /\ last' = [NoLast EXCEPT !.op = "RETRY"]
  /\ UNCHANGED <<activities, challenges, progress, tx, session, sheet, feed>>

\* Values of the drawn rows, the days on which the signed-in user logs
\* activities and the statuses the admin sets.
RankValues == 0..1
RankDays == {1}
RankStatuses == {"upcoming", "active"}

\* The screen mounts (useEffect calls fetchData).  The challenge_progress
\* table holds no row of c2; of c1 it holds a row of u4 at 1, a row of u3 and
\* rows of any of the two client users, with values in RankValues.
InitRank ==
  /\ activities = {}
  /\ challenges = [c \in ChallengeIds |->
                     [start_date |-> Windows[c].start_date,
                      end_date |-> Windows[c].end_date,
                      status |-> "upcoming"]]
  /\ \E holders \in SUBSET Users : \E v \in [holders \cup {"u3"} -> RankValues] :
       progress = {[user_id |-> u, challenge_id |-> "c1", current_value |-> v[u]] :
                     u \in holders \cup {"u3"}}
                  \cup {[user_id |-> "u4", challenge_id |-> "c1", current_value |-> 1]}
  /\ tx = [t \in TxIds |-> IdleTx]
  /\ last = NoLast
  /\ session \in {Null, Some("u1")}
  /\ screen = [Mounted EXCEPT !.pc = "challenges"]
  /\ sheet = ClosedSheets
  /\ notifications = {}
  /\ events = {}
  /\ inbox = Unmounted
  /\ overall = Unmounted

NextRank ==
  \/ fetchChallengesError
  \/ fetchChallengesNone
  \/ fetchChallenges
  \/ fetchProgressError
  \/ fetchProgress
  \/ handleRefresh
  \/ tryAgain
  \/ \E d \in RankDays : session # Null /\ InsertActivity(session[1], d)
  \/ \E c \in ChallengeIds, st \in RankStatuses : handleStatusChange(c, st)

SpecRank == InitRank /\ [][NextRank]_vars

---------------------------------------------------------------------------
(* The sheet AddActivitySheet *)

\* Text is a sequence of characters.
DigitValue ==
  [ch \in {"0", "1", "2", "3", "4", "5", "6", "7", "8", "9"} |->
     CASE ch = "0" -> 0 [] ch = "1" -> 1 [] ch = "2" -> 2 [] ch = "3" -> 3
       [] ch = "4" -> 4 [] ch = "5" -> 5 [] ch = "6" -> 6 [] ch = "7" -> 7
       [] ch = "8" -> 8 [] ch = "9" -> 9]

WhiteSpace == {" "}

RECURSIVE trimStart(_)
trimStart(text) ==
  IF text # <<>> /\ Head(text) \in WhiteSpace THEN trimStart(Tail(text)) ELSE text

RECURSIVE trimEnd(_)
trimEnd(text) ==
  IF text # <<>> /\ text[Len(text)] \in WhiteSpace
    THEN trimEnd(SubSeq(text, 1, Len(text) - 1)) ELSE text

\* String.prototype.trim
trim(text) == trimEnd(trimStart(text))

\* The longest prefix of digits.
RECURSIVE DigitPrefix(_)
DigitPrefix(text) ==
  IF text # <<>> /\ Head(text) \in DOMAIN DigitValue
    THEN <<Head(text)>> \o DigitPrefix(Tail(text)) ELSE <<>>

RECURSIVE DigitsValue(_)
DigitsValue(digits) ==
  IF digits = <<>> THEN 0
  ELSE 10 * DigitsValue(SubSeq(digits, 1, Len(digits) - 1))
         + DigitValue[digits[Len(digits)]]

NaN == <<>>

isNaN(x) == x = NaN

\* parseInt(string): leading white space is skipped, then an optional sign and
\* the longest prefix of digits are read; the rest of the text is ignored.
\* NaN when no digit is read.
parseInt(text) ==
  LET t == trimStart(text)
      signed == t # <<>> /\ Head(t) \in {"-", "+"}
      body == IF signed THEN Tail(t) ELSE t
      digits == DigitPrefix(body)
  IN  IF digits = <<>> THEN NaN
      ELSE Some((IF signed /\ Head(t) = "-" THEN -1 ELSE 1) * DigitsValue(digits))

\* form.activity_date.toISOString().split('T')[0]: the UTC day of the instant
formattedDate(date) == date \div TicksPerDay

\* setForm(prev => ({ ...prev, [field]: text })) of the inputs
AddActivitySheet_setForm(field, value) ==
  /\ sheet' = [sheet EXCEPT !.add.form[field] = value]
  /\ sheet' # sheet
  /\ last' = [NoLast EXCEPT !.op = "EDIT"]
  /\ UNCHANGED <<activities, challenges, progress, tx, session, screen, feed>>

\* handleSubmit stopped before the insert: setError(message); finally
\* setLoading(false).  The form is kept.
AddActivitySheet_fail(message) ==
  /\ sheet' = [sheet EXCEPT !.add.loading = FALSE, !.add.error = Some(message)]
  /\ last' = [NoLast EXCEPT !.op = "ADD_FAILED"]
  /\ UNCHANGED <<activities, challenges, progress, tx, session, screen, feed>>

\* if (!user) throw new Error('Not authenticated')
AddActivitySheet_notAuthenticated ==
  /\ session = Null
  /\ AddActivitySheet_fail("Not authenticated")

\* if (!form.title.trim()) { setError('Title is required'); return; }
AddActivitySheet_titleRequired ==
  /\ session # Null
  /\ trim(sheet.add.form.title) = <<>>
  /\ AddActivitySheet_fail("Title is required")

\* The test of duration_minutes.
DurationRejected(duration_minutes) ==
  IF isNaN(parseInt(duration_minutes)) THEN TRUE
  ELSE parseInt(duration_minutes)[1] <= 0

AddActivitySheet_durationInvalid ==
  /\ session # Null
  /\ trim(sheet.add.form.title) # <<>>
  /\ DurationRejected(sheet.add.form.duration_minutes)
  /\ AddActivitySheet_fail("Duration must be a positive number")

\* if (insertError) throw insertError
AddActivitySheet_insertError ==
  /\ session # Null
  /\ trim(sheet.add.form.title) # <<>>
  /\ ~DurationRejected(sheet.add.form.duration_minutes)
  /\ AddActivitySheet_fail("Failed to add activity")

\* handleSubmit to its end: the insert, the form reset, onSuccess, onClose.
AddActivitySheet_handleSubmit ==
  /\ session # Null
  /\ trim(sheet.add.form.title) # <<>>
  /\ ~DurationRejected(sheet.add.form.duration_minutes)
  /\ FreeIds(activities) # {}
  /\ Request("INSERT", NoRow,
             [id |-> NextId(activities), user_id |-> session[1],
              activity_date |-> formattedDate(sheet.add.form.activity_date),
              created_at |-> Now])
  /\ sheet' = [sheet EXCEPT !.add.loading = FALSE, !.add.error = Null,
                            !.add.form = AddActivityForm]
  /\ UNCHANGED <<session, screen>>

\* Texts typed into the title and duration inputs, and the dates picked.
TitleTexts == {<<>>, <<" ">>, <<"R", "u", "n">>}
DurationTexts ==
  {<<>>, <<"6", "0">>, <<"0">>, <<"-", "5">>, <<"a">>, <<"5", "a">>,
   <<" ", "7">>, <<"1", ".", "5">>}
PickedDates == {Ts(d, 0) : d \in Days}

\* The sheet opens with its default form; both challenges are active.
InitAdd ==
  /\ activities = {}
  /\ challenges = [c \in ChallengeIds |->
                     [start_date |-> Windows[c].start_date,
                      end_date |-> Windows[c].end_date,
                      status |-> "active"]]
  /\ progress = ZeroRows(Enrolled)
  /\ tx = [t \in TxIds |-> IdleTx]
  /\ last = NoLast
  /\ session \in {Null, Some("u1")}
  /\ screen = Unmounted
  /\ sheet = OpenSheets
  /\ notifications = {}
  /\ events = {}
  /\ inbox = Unmounted
  /\ overall = Unmounted

NextAdd ==
  \/ \E text \in TitleTexts : AddActivitySheet_setForm("title", text)
  \/ \E text \in DurationTexts : AddActivitySheet_setForm("duration_minutes", text)
  \/ \E date \in PickedDates : AddActivitySheet_setForm("activity_date", date)
  \/ AddActivitySheet_notAuthenticated
  \/ AddActivitySheet_titleRequired
  \/ AddActivitySheet_durationInvalid
  \/ AddActivitySheet_insertError
  \/ AddActivitySheet_handleSubmit

SpecAdd == InitAdd /\ [][NextAdd]_vars

---------------------------------------------------------------------------
(* The sheet CreateChallengeSheet *)

\* A test that lets equal dates pass.
EndNotAfterStart_strict(form) == form.end_date < form.start_date

\* form.end_date <= form.start_date
EndNotAfterStart(form) == form.end_date <= form.start_date

\* list.filter(item => item.trim())
NonEmpty(list) == SelectSeq(list, LAMBDA text : trim(text) # <<>>)

\* The error the validation of handleSubmit throws, null when it passes.
ValidationError(form) ==
  IF trim(form.title) = <<>> THEN Some("Title is required")
  ELSE IF trim(form.subtitle) = <<>> THEN Some("Subtitle is required")
  ELSE IF trim(form.description) = <<>> THEN Some("Description is required")
  ELSE IF form.target_value = <<>> THEN Some("Target value is required")
  ELSE IF trim(form.unit) = <<>> THEN Some("Unit is required")
  ELSE IF EndNotAfterStart(form) THEN Some("End date must be after start date")
  ELSE IF Len(NonEmpty(form.rules)) = 0 THEN Some("At least one rule is required")
  ELSE IF Len(NonEmpty(form.rewards)) = 0
    THEN Some("At least one reward is required")
  ELSE Null

\* setForm({ ...form, [field]: value }) of the inputs and date pickers
CreateChallengeSheet_setForm(field, value) ==
  /\ sheet' = [sheet EXCEPT !.create.form[field] = value]
  /\ sheet' # sheet
  /\ last' = [NoLast EXCEPT !.op = "EDIT"]
  /\ UNCHANGED <<activities, challenges, progress, tx, session, screen, feed>>

\* catch: setError(error.message); finally setLoading(false).  The form is
\* kept.
CreateChallengeSheet_fail(error) ==
  /\ sheet' = [sheet EXCEPT !.create.loading = FALSE, !.create.error = error]
  /\ last' = [NoLast EXCEPT !.op = "CREATE_FAILED"]
  /\ UNCHANGED <<activities, challenges, progress, tx, session, screen, feed>>

\* handleSubmit: the validation throws.
CreateChallengeSheet_invalid ==
  /\ ValidationError(sheet.create.form) # Null
  /\ CreateChallengeSheet_fail(ValidationError(sheet.create.form))

\* if (createError) throw createError
CreateChallengeSheet_createError ==
  /\ ValidationError(sheet.create.form) = Null
  /\ CreateChallengeSheet_fail(Some("Failed to create challenge"))

\* Ids of the challenges the sheet creates (gen_random_uuid), in the order
\* they are given out.
CreatedIds == <<"c3", "c4">>

FreeChallengeIds(chs) == {i \in DOMAIN CreatedIds : CreatedIds[i] \notin DOMAIN chs}

NextChallengeId(chs) ==
  CreatedIds[CHOOSE i \in FreeChallengeIds(chs) :
               \A j \in FreeChallengeIds(chs) : i <= j]

\* handleSubmit to its end: the insert into challenges, the form reset,
\* onSuccess, onClose.
CreateChallengeSheet_handleSubmit ==
  /\ ValidationError(sheet.create.form) = Null
  /\ FreeChallengeIds(challenges) # {}
  /\ LET id == NextChallengeId(challenges)
     IN
       /\ challenges' =
            [c \in DOMAIN challenges \cup {id} |->
               IF c = id
                 THEN [start_date |-> sheet.create.form.start_date,
                       end_date |-> sheet.create.form.end_date,
                       status |-> sheet.create.form.status]
                 ELSE challenges[c]]
       /\ last' = [NoLast EXCEPT !.op = "CREATE", !.cid = id]
  /\ sheet' = [sheet EXCEPT !.create.loading = FALSE, !.create.error = Null,
                            !.create.form = CreateChallengeForm]
  /\ UNCHANGED <<activities, progress, tx, session, screen, feed>>

\* Texts typed into the inputs, rule and reward lists, and dates picked.
FieldTexts == {<<>>, <<"x">>}
TargetTexts == {<<>>, <<"5">>}
Lists == {<<<<>>, <<>>, <<>>>>, <<<<"x">>, <<>>, <<>>>>}
StartDates == {Ts(0, 1), Ts(1, 1)}
EndDates == {Ts(0, 1), Ts(1, 1), Now + 30 * TicksPerDay}

NextCreate ==
  \/ \E text \in TitleTexts : CreateChallengeSheet_setForm("title", text)
  \/ \E field \in {"subtitle", "description", "unit"}, text \in FieldTexts :
       CreateChallengeSheet_setForm(field, text)
  \/ \E text \in TargetTexts : CreateChallengeSheet_setForm("target_value", text)
  \/ \E field \in {"rules", "rewards"}, list \in Lists :
       CreateChallengeSheet_setForm(field, list)
  \/ \E date \in StartDates : CreateChallengeSheet_setForm("start_date", date)
  \/ \E date \in EndDates : CreateChallengeSheet_setForm("end_date", date)
  \/ CreateChallengeSheet_invalid
  \/ CreateChallengeSheet_createError
  \/ CreateChallengeSheet_handleSubmit

\* The sheet opens with its default form over the state after the migrations.
InitCreate ==
  /\ activities = {}
  /\ challenges = [c \in ChallengeIds |->
                     [start_date |-> Windows[c].start_date,
                      end_date |-> Windows[c].end_date,
                      status |-> "upcoming"]]
  /\ progress = ZeroRows(Enrolled)
  /\ tx = [t \in TxIds |-> IdleTx]
  /\ last = NoLast
  /\ session = Null
  /\ screen = Unmounted
  /\ sheet = OpenSheets
  /\ notifications = {}
  /\ events = {}
  /\ inbox = Unmounted
  /\ overall = Unmounted

SpecCreate == InitCreate /\ [][NextCreate]_vars

---------------------------------------------------------------------------
(* Properties *)

\* The calendar day an instant falls on.
DayOf(ts) == CHOOSE d \in Days : Ts(d, 0) <= ts /\ ts < Ts(d + 1, 0)

Active(c) == challenges[c].status = "active"

\* The activity's date lies in the challenge window, bounds included.
InsideWindow(a, c) ==
  /\ DayOf(challenges[c].start_date) <= a.activity_date
  /\ a.activity_date <= DayOf(challenges[c].end_date)

\* Number of committed activities of user u dated inside the window of c.
Count(u, c) ==
  Cardinality({a \in activities : a.user_id = u /\ InsideWindow(a, c)})

Fresh(cp) == cp.current_value = Count(cp.user_id, cp.challenge_id)

RowOf(u, c) == {cp \in progress : cp.user_id = u /\ cp.challenge_id = c}

\* C1: right after any committed activity insert, update or delete, every
\* challenge_progress row of an active challenge holds the number of its
\* user's activities dated inside the challenge window.
C1_ActiveRowsFresh ==
  last.op \in ActivityOps =>
    \A cp \in progress : Active(cp.challenge_id) => Fresh(cp)

\* C2: the committed tables change only at a commit, which publishes the
\* activity write together with every row version its trigger computed; a
\* transaction whose trigger step fails leaves both tables as they were.
C2_MutationAndRecomputeAtomic ==
  [][ /\ (activities' # activities \/ progress' # progress) =>
           \E t \in TxIds :
             /\ tx[t].pc = "triggered" /\ tx'[t].pc = "idle"
             /\ activities' = View(t)
             /\ tx[t].writes \subseteq progress'
             /\ \A cp \in progress' : cp \in progress \/ cp \in tx[t].writes
      /\ \A t \in TxIds :
           tx[t].pc = "written" /\ tx'[t].pc = "idle" =>
             activities' = activities /\ progress' = progress ]_vars

\* C2 witness: a commit has published an inserted activity and a row
\* counting it.
C2_Witness ==
  /\ last.op = "INSERT"
  /\ \E w \in last.writes : w \in progress /\ w.current_value >= 1
  /\ \E a \in activities : a.user_id = last.user

\* C3: every row version a committed activity transaction wrote equals the
\* count over all activities committed by then, also when the transaction
\* overlapped another one of the same user.
C3_ConcurrentWritesSerialize ==
  last.op \in ActivityOps =>
    \A w \in last.writes : w \in progress /\ Fresh(w)

\* C3 witness: the second of two overlapping transactions of one user has
\* committed, and its row counts the activities of both.
C3_Witness ==
  /\ last.op = "INSERT"
  /\ last.overlap
  /\ \E w \in last.writes : w \in progress /\ w.current_value = 2

\* C4: right after a challenge's status is set to active, every
\* challenge_progress row of that challenge holds its user's count.
C4_ActivationRecomputes ==
  (last.op = "STATUS" /\ Active(last.cid)) =>
    \A cp \in progress : cp.challenge_id = last.cid => Fresh(cp)

\* C5: right after a user's insert, the user has a challenge_progress row
\* holding the count for every active challenge whose window contains one of
\* the user's activities.
C5_RowCreatedWhenAbsent ==
  last.op = "INSERT" =>
    \A c \in ChallengeIds :
      (Active(c) /\ Count(last.user, c) >= 1) =>
        \E cp \in RowOf(last.user, c) : Fresh(cp)

\* C6: calculate_challenge_progress counts an activity exactly when its
\* activity_date lies between the day of start_date and the day of end_date,
\* both included, whatever its created_at; the recalculation stores that count.
C6_WindowByDateInclusive ==
  /\ \A c \in ChallengeIds : \A a \in activities :
       LET with == calculate_challenge_progress(activities, challenges, a.user_id, c)
           without == calculate_challenge_progress(activities \ {a}, challenges,
                                                   a.user_id, c)
       IN  /\ with - without = (IF InsideWindow(a, c) THEN 1 ELSE 0)
           /\ \A t \in Timestamps :
                calculate_challenge_progress(
                  (activities \ {a}) \cup {[a EXCEPT !.created_at = t]},
                  challenges, a.user_id, c) = with
  /\ last.op = "RECALC" => \A cp \in progress : Fresh(cp)

\* C6 witness: a window that starts after midnight and ends on a later day,
\* one activity dated on its first day and one on its last, both created
\* after the window; the recalculated row counts both.
C6_Witness ==
  /\ last.op = "RECALC"
  /\ challenges["c1"].start_date # Ts(DayOf(challenges["c1"].start_date), 0)
  /\ DayOf(challenges["c1"].start_date) < DayOf(challenges["c1"].end_date)
  /\ \E a \in activities, b \in activities :
       /\ a.user_id = "u1" /\ b.user_id = "u1"
       /\ a.activity_date = DayOf(challenges["c1"].start_date)
       /\ b.activity_date = DayOf(challenges["c1"].end_date)
       /\ a.created_at > challenges["c1"].end_date
       /\ b.created_at > challenges["c1"].end_date
  /\ \E cp \in RowOf("u1", "c1") : cp.current_value = 2

\* C7: right after a committed activity insert, update or delete, each row of
\* the activity's owner in an active challenge was rewritten by the trigger
\* and holds the count, wherever the activity's date lies.
C7_EveryActiveChallengeRecomputed ==
  last.op \in ActivityOps =>
    \A cp \in progress :
      (cp.user_id = last.user /\ Active(cp.challenge_id)) =>
        (cp \in last.writes /\ Fresh(cp))

\* C7 witness: with both challenges active, u1 updated its only activity to
\* day 2, outside the window of c2; both rows of u1 were rewritten, the row of
\* c2 to 0.
C7_Witness ==
  /\ last.op = "UPDATE" /\ last.user = "u1"
  /\ Active("c1") /\ Active("c2")
  /\ \A a \in activities : a.user_id = "u1" => a.activity_date = 2
  /\ \E a \in activities : a.user_id = "u1"
  /\ \E w \in last.writes : w.challenge_id = "c1" /\ w.current_value = 1
  /\ \E w \in last.writes : w.challenge_id = "c2" /\ w.current_value = 0

\* C8: the trigger rewrites rows of the written activity's owner only, and
\* right after a delete the rows of the deleted activity's owner in active
\* challenges hold the count.
C8_OwnerOfWrittenRow ==
  /\ last.op \in ActivityOps => \A w \in last.writes : w.user_id = last.user
  /\ last.op = "DELETE" =>
       /\ last.user \in Users
       /\ \A cp \in progress :
            (cp.user_id = last.user /\ Active(cp.challenge_id)) => Fresh(cp)

\* C8 witness: u2 deleted its activity and its row of the active challenge c1
\* went back to 0, while u1's row still counts u1's activity.
C8_Witness ==
  /\ last.op = "DELETE" /\ last.user = "u2"
  /\ Active("c1")
  /\ \E w \in last.writes : w.challenge_id = "c1" /\ w.current_value = 0
  /\ \E cp \in RowOf("u1", "c1") : cp.current_value = 1

\* The activities table lost exactly row a in this step.
Deleted(a) == activities' = activities \ {a} /\ a \in activities

\* The activities table had row a replaced by row b (same id) in this step.
Updated(a, b) ==
  /\ a \in activities /\ b.id = a.id /\ b # a
  /\ activities' = (activities \ {a}) \cup {b}

\* C9: deleting an activity dated inside an active challenge's window lowers
\* the owner's row of that challenge by exactly 1, and deleting one dated
\* outside the window leaves the row's value as it was.
C9_DeleteLowersByOne ==
  [][ \A a \in activities : Deleted(a) =>
        \A cp \in progress :
          (cp.user_id = a.user_id /\ Active(cp.challenge_id)) =>
            \E np \in progress' :
              /\ SameKey(np, cp)
              /\ np.current_value =
                   cp.current_value - (IF InsideWindow(a, cp.challenge_id) THEN 1 ELSE 0)
    ]_vars

\* C10: an update that moves an activity's date into an active challenge's
\* window raises the owner's row of that challenge by 1, one that moves it out
\* lowers it by 1, and one that keeps the side leaves the value as it was.
C10_UpdateMovesByOne ==
  [][ \A a \in activities : \A b \in activities' : Updated(a, b) =>
        \A cp \in progress :
          (cp.user_id = a.user_id /\ Active(cp.challenge_id)) =>
            \E np \in progress' :
              /\ SameKey(np, cp)
              /\ np.current_value =
                   cp.current_value
                     + (IF InsideWindow(b, cp.challenge_id) THEN 1 ELSE 0)
                     - (IF InsideWindow(a, cp.challenge_id) THEN 1 ELSE 0)
    ]_vars

\* C11: the second run of the recalculation, on unchanged activities and
\* challenges, computes for every row the value the first run stored and
\* leaves the challenge_progress table as it was.
C11_RecomputeIdempotent ==
  [][ (last.op = "RECALC" /\ last'.op = "RECALC2") =>
        /\ progress' = progress
        /\ \A cp \in progress :
             Active(cp.challenge_id) =>
               calculate_challenge_progress(activities', challenges',
                                            cp.user_id, cp.challenge_id)
                 = cp.current_value
    ]_vars

\* C11 witness: the recalculation ran twice and a row holds a count of 2.
C11_Witness ==
  /\ last.op = "RECALC2"
  /\ \E cp \in progress : cp.current_value = 2

\* C18: the challenge_progress table never holds two rows of the same
\* (user_id, challenge_id) pair.
C18_OneRowPerUserAndChallenge ==
  \A r \in progress : \A w \in progress : SameKey(r, w) => r = w

\* C18 witness: after an activation of c1, u1's insert made the trigger
\* rewrite u1's row of c1 from 0 to 1; the pair still has one row.
C18_Witness ==
  /\ last.op = "INSERT" /\ last.user = "u1"
  /\ Active("c1")
  /\ \E w \in last.writes : w.challenge_id = "c1" /\ w.current_value = 1
  /\ Cardinality(RowOf("u1", "c1")) = 1

\* The rows of challenge c in the committed challenge_progress table.
RowsOf(c) == {cp \in progress : cp.challenge_id = c}

\* The elements of a list.
Range(list) == {list[i] : i \in DOMAIN list}

\* C12: right after a fetch returned the ranking of a challenge, the list is
\* in non-increasing order of current_value and holds every
\* challenge_progress row of that challenge exactly once, and nothing else.
C12_RankingSortedAndComplete ==
  last.op = "FETCH" =>
    LET list == screen.progress
    IN  /\ \A i \in DOMAIN list : \A j \in DOMAIN list :
             i < j => list[i].current_value >= list[j].current_value
        /\ \A cp \in RowsOf(last.cid) :
             Cardinality({i \in DOMAIN list :
                            /\ list[i].user_id = cp.user_id
                            /\ list[i].current_value = cp.current_value}) = 1
        /\ Len(list) = Cardinality(RowsOf(last.cid))

\* C12 witness: a fetched ranking of four rows with a tie and a strict
\* descent.
C12_Witness ==
  /\ last.op = "FETCH"
  /\ Len(screen.progress) = 4
  /\ screen.progress[1].current_value > screen.progress[3].current_value
  /\ screen.progress[3].current_value = screen.progress[4].current_value

\* Number of rows of challenge c whose current_value is greater than v.
Above(c, v) == Cardinality({cp \in RowsOf(c) : cp.current_value > v})

\* C13: right after a fetch, the number shown next to every entry of the
\* list, and the rank reported for the signed-in user, is 1 plus the number
\* of rows of the challenge with a strictly greater current_value (so equal
\* values carry the same number).
C13_RankCountsStrictlyGreater ==
  (last.op = "FETCH" /\ ListShown(screen)) =>
    /\ \A i \in DOMAIN Entries(screen) :
         Entries(screen)[i].rank = 1 + Above(last.cid, Entries(screen)[i].current_value)
    /\ \A i \in DOMAIN screen.progress :
         (session # Null /\ screen.progress[i].user_id = session[1]) =>
           screen.currentUserRank
             = Some(1 + Above(last.cid, screen.progress[i].current_value))

\* C14: whenever the list is shown to a signed-in user who has an entry in
\* it, currentUserRank is the number shown next to that entry (1 to 3 on the
\* podium, index + 4 below it).
C14_UserRankIsDisplayedRank ==
  (ListShown(screen) /\ session # Null) =>
    \A i \in DOMAIN Entries(screen) :
      Entries(screen)[i].user_id = session[1] =>
        screen.currentUserRank = Some(Entries(screen)[i].rank)

\* C14 witness: the signed-in user is shown fourth, below the podium, and
\* currentUserRank is 4.
C14_Witness ==
  /\ ListShown(screen) /\ last.op = "FETCH"
  /\ session = Some("u1")
  /\ Len(Entries(screen)) = 4
  /\ Entries(screen)[4].user_id = "u1" /\ Entries(screen)[4].rank = 4
  /\ screen.currentUserRank = Some(4)

\* C15: right after a fetch for a signed-in user who has no
\* challenge_progress row in the ranked challenge, currentUserRank is null
\* (not 0 or any other number), no banner is shown and the user is not in
\* the list; so it is when the challenge has no row at all.
C15_NoRowNoRank ==
  (last.op = "FETCH" /\ session # Null
     /\ \A cp \in RowsOf(last.cid) : cp.user_id # session[1]) =>
    /\ screen.currentUserRank = Null
    /\ CurrentRankBanner(screen) = Null
    /\ \A i \in DOMAIN screen.progress : screen.progress[i].user_id # session[1]
    /\ RowsOf(last.cid) = {} => screen.progress = <<>>

\* C15 witness: u1 held rank 1 in c1; the next fetch ranks c2, where no
\* row exists, and currentUserRank is null again.
C15_Witness ==
  /\ last.op = "FETCH" /\ last.cid = "c2"
  /\ session = Some("u1")
  /\ \E i \in DOMAIN last.prev : last.prev[i].user_id = "u1"
  /\ screen.progress = <<>>
  /\ screen.currentUserRank = Null

\* C16: a fetch that finds the rows the previous fetch found returns them in
\* the order the previous fetch returned them.
C16_TieOrderRepeats ==
  (last.op = "FETCH" /\ Range(last.prev) = Range(screen.progress)) =>
    last.prev = screen.progress

\* C17: a step of the rankings screen changes none of the tables activities,
\* challenges and challenge_progress, and the list a fetch returns holds the
\* rows the challenge_progress table holds at that fetch.
C17_FetchIsPureRead ==
  [][ /\ screen' # screen =>
          /\ activities' = activities
          /\ challenges' = challenges
          /\ progress' = progress
      /\ (last'.op = "FETCH" /\ last' # last) =>
          Range(screen'.progress)
            = {[user_id |-> cp.user_id, current_value |-> cp.current_value] :
                 cp \in {r \in progress : r.challenge_id = last'.cid}}
    ]_vars

\* C17 witness: the fetch before showed u1 at a lower value; after u1's
\* insert the next fetch of the same challenge shows the new value.
C17_Witness ==
  /\ last.op = "FETCH"
  /\ \E i \in DOMAIN last.prev : \E j \in DOMAIN screen.progress :
       /\ last.prev[i].user_id = "u1" /\ screen.progress[j].user_id = "u1"
       /\ screen.progress[j].current_value > last.prev[i].current_value
       /\ [user_id |-> "u1", challenge_id |-> last.cid,
           current_value |-> screen.progress[j].current_value] \in progress

Digits == {"0", "1", "2", "3", "4", "5", "6", "7", "8", "9"}

\* The text without blanks.
Unpadded(text) == SelectSeq(text, LAMBDA ch : ch # " ")

Blank(text) == Unpadded(text) = <<>>

\* The text without blanks and without a leading sign.
Unsigned(text) ==
  IF Unpadded(text) # <<>> /\ Head(Unpadded(text)) \in {"-", "+"}
    THEN Tail(Unpadded(text)) ELSE Unpadded(text)

\* The text writes a number: an optional sign, then digits with at most one
\* decimal point, and nothing else.
IsNumber(text) ==
  /\ \E i \in DOMAIN Unsigned(text) : Unsigned(text)[i] \in Digits
  /\ \A i \in DOMAIN Unsigned(text) : Unsigned(text)[i] \in Digits \cup {"."}
  /\ Cardinality({i \in DOMAIN Unsigned(text) : Unsigned(text)[i] = "."}) <= 1

\* The text writes a number greater than 0.
IsPositiveNumber(text) ==
  /\ IsNumber(text)
  /\ Head(Unpadded(text)) # "-"
  /\ \E i \in DOMAIN Unsigned(text) : Unsigned(text)[i] \in Digits \ {"0"}

\* C19: a submit of the activity form whose duration_minutes is not a number
\* or is not greater than 0, or whose title is empty, ends with an error
\* shown and leaves the activities and challenge_progress tables as they were.
C19_InvalidActivityRejected ==
  [][ (/\ last'.op \in {"INSERT", "ADD_FAILED"}
       /\ \/ Blank(sheet.add.form.title)
          \/ ~IsPositiveNumber(sheet.add.form.duration_minutes)) =>
        /\ activities' = activities
        /\ progress' = progress
        /\ sheet'.add.error # Null
    ]_vars

\* C20: a submit of the challenge form whose end_date is not after its
\* start_date ends with an error shown and leaves the challenges table as it
\* was; every stored challenge has end_date > start_date.
C20_ChallengeDatesValidated ==
  [][ /\ (/\ last'.op \in {"CREATE", "CREATE_FAILED"}
           /\ sheet.create.form.end_date <= sheet.create.form.start_date) =>
            /\ challenges' = challenges
            /\ sheet'.create.error # Null
      /\ \A c \in DOMAIN challenges' :
           challenges'[c].end_date > challenges'[c].start_date
    ]_vars

\* C20 witness: after one challenge was created, a submit of an otherwise
\* complete form with end_date equal to start_date was refused with the date
\* error, and the table holds the created challenge only.
C20_Witness ==
  /\ last.op = "CREATE_FAILED"
  /\ sheet.create.form.end_date = sheet.create.form.start_date
  /\ sheet.create.error = Some("End date must be after start date")
  /\ DOMAIN challenges = ChallengeIds \cup {"c3"}

---------------------------------------------------------------------------
(* Activity requests under the row level security policies *)

\* auth.uid() of a request: nobody, or a signed-in user
Uids == {Null} \cup {Some(u) : u \in Users}

\* USING (auth.uid() = user_id) of the policies for UPDATE and DELETE
OwnRow(uid, row) == uid = Some(row.user_id)

\* from('activities').delete() or .update() with .eq('id', OLD_row.id), sent
\* as uid: the statement touches the row only if the policy lets uid see
\* it; a statement that matches no row fires no trigger and is no error.
ActivityRequest(uid, TG_OP, OLD_row, NEW_row) ==
  /\ OLD_row \in activities
  /\ IF OwnRow(uid, OLD_row)
       THEN /\ activities' = (activities \ {OLD_row}) \cup ({NEW_row} \ {NoRow})
            /\ progress' = update_challenge_progress(TG_OP, OLD_row, NEW_row,
                                                     activities', challenges, progress)
            /\ last' = [Committed(TG_OP, OLD_row, NEW_row,
                                  RowWrites(TG_OP, OLD_row, NEW_row,
                                            activities', challenges, progress),
                                  FALSE)
                          EXCEPT !.uid = uid, !.target = OLD_row.id]
       ELSE /\ UNCHANGED <<activities, progress>>
            /\ last' = [NoLast EXCEPT !.op = TG_OP, !.uid = uid,
                                      !.target = OLD_row.id]
  /\ UNCHANGED <<challenges, tx, ui, feed>>

\* handleDeleteActivity, "Delete": delete from activities where id = activity.id
DeleteRequest(uid, OLD_row) == ActivityRequest(uid, "DELETE", OLD_row, NoRow)

\* update of activity_date where id = activity.id
UpdateRequest(uid, OLD_row, d) ==
  ActivityRequest(uid, "UPDATE", OLD_row, [OLD_row EXCEPT !.activity_date = d])

\* if (error) throw error: the request did not reach the table.
ActivityRequestError(uid, TG_OP, OLD_row) ==
  /\ OLD_row \in activities
  /\ last' = [NoLast EXCEPT !.op = TG_OP, !.uid = uid, !.target = OLD_row.id,
                            !.error = Some("error")]
  /\ UNCHANGED <<activities, challenges, progress, tx, ui, feed>>

\* Both challenges are active; every enrolled row is at 0.  c1 stays active,
\* the admin moves c2 between the statuses.
InitAuth ==
  /\ activities = {}
  /\ challenges = [c \in ChallengeIds |->
                     [start_date |-> Windows[c].start_date,
                      end_date |-> Windows[c].end_date,
                      status |-> "active"]]
  /\ progress = ZeroRows(Enrolled)
  /\ tx = [t \in TxIds |-> IdleTx]
  /\ last = NoLast
  /\ session = Null
  /\ screen = Unmounted
  /\ sheet = ClosedSheets
  /\ notifications = {}
  /\ events = {}
  /\ inbox = Unmounted
  /\ overall = Unmounted

NextAuth ==
  \/ \E u \in Users, d \in Days : InsertActivity(u, d)
  \/ \E uid \in Uids, a \in activities : DeleteRequest(uid, a)
  \/ \E uid \in Uids, a \in activities, d \in Days : UpdateRequest(uid, a, d)
  \/ \E uid \in Uids, a \in activities, op \in {"UPDATE", "DELETE"} :
       ActivityRequestError(uid, op, a)
  \/ \E s \in Statuses : handleStatusChange("c2", s)

SpecAuth == InitAuth /\ [][NextAuth]_vars

---------------------------------------------------------------------------
(* Challenge administration next to the activity requests *)

\* The form of CreateChallengeSheet once the admin has typed a challenge.
TypedChallengeForm ==
  [CreateChallengeForm EXCEPT
     !.title = <<"x">>, !.subtitle = <<"x">>, !.description = <<"x">>,
     !.target_value = <<"5">>, !.unit = <<"x">>,
     !.start_date = Ts(1, 0), !.end_date = Ts(2, 0),
     !.rules = <<<<"x">>, <<>>, <<>>>>, !.rewards = <<<<"x">>, <<>>, <<>>>>]

\* The two challenges exist as created, the rankings screen mounts for u1
\* and the admin has the sheet open with a challenge typed in.
InitAdmin ==
  /\ activities = {}
  /\ challenges = [c \in ChallengeIds |->
                     [start_date |-> Windows[c].start_date,
                      end_date |-> Windows[c].end_date,
                      status |-> "upcoming"]]
  /\ progress = ZeroRows(Enrolled)
  /\ tx = [t \in TxIds |-> IdleTx]
  /\ last = NoLast
  /\ session = Some("u1")
  /\ screen = [Mounted EXCEPT !.pc = "challenges"]
  /\ sheet = [OpenSheets EXCEPT !.create.form = TypedChallengeForm]
  /\ notifications = {}
  /\ events = {}
  /\ inbox = Unmounted
  /\ overall = Unmounted

\* The admin sets the status of c1 and of the created challenge; c2 is left
\* as it is.
NextAdmin ==
  \/ CreateChallengeSheet_handleSubmit
  \/ CreateChallengeSheet_invalid
  \/ \E c \in DOMAIN challenges \ {"c2"}, s \in Statuses : handleStatusChange(c, s)
  \/ \E d \in RankDays : InsertActivity(session[1], d)
  \/ \E a \in activities : DeleteActivity(a)
  \/ RecalculateAllProgress
  \/ fetchChallengesNone
  \/ fetchChallenges
  \/ fetchProgress
  \/ handleRefresh
  \/ tryAgain

SpecAdmin == InitAdmin /\ [][NextAdmin]_vars

---------------------------------------------------------------------------
(* The overall-activity view *)

\* case 'week': startDate.setDate(now.getDate() - 7)
WeekDays == 7

\* new Date() while the view is open: the second instant of day 28.
StatsNow == Ts(28, 1)

\* The day on which the month of a day begins (months of ten days).
FirstOfMonth(day) == day - (day % 10)

\* startDate.setHours(0, 0, 0, 0)
setHours0(ts) == Ts(ToDate(ts), 0)

\* toISOString().split('T')[0]
toISODate(ts) == ToDate(ts)

\* startDate.setDate(now.getDate() - 7): the same time of day, 7 days back
setDateWeekBack(ts) == ts - WeekDays * TicksPerDay

\* startDate.setDate(1): the same time of day on the first of the month
setDate1(ts) == Ts(FirstOfMonth(ToDate(ts)), ts % TicksPerDay)

\* The rows the query of fetchActivityStats returns for a time range.
StatsRows(timeRange, acts, user, now) ==
  IF timeRange = "day"
    THEN {a \in acts : /\ a.user_id = user
                        /\ a.activity_date = toISODate(setHours0(now))}
    ELSE LET startDate == IF timeRange = "week" THEN setDateWeekBack(now)
                                               ELSE setDate1(now)
         IN  {a \in acts : /\ a.user_id = user
                            /\ a.created_at >= startDate
                            /\ a.created_at <= now}

RECURSIVE reduceDuration(_)
\* data.reduce((sum, activity) => sum + (activity.duration_minutes || 0), 0)
reduceDuration(data) ==
  IF data = {} THEN 0
  ELSE LET activity == CHOOSE a \in data : TRUE
       IN  activity.duration_minutes + reduceDuration(data \ {activity})

\* setStats({ total_activities: data.length, total_duration: totalDuration })
StatsOf(data) ==
  [total_activities |-> Cardinality(data), total_duration |-> reduceDuration(data)]

\* useState of OverallActivity; pc is the position of fetchActivityStats and
\* closure the timeRange of the render whose fetchActivityStats is running.
OverallMounted ==
  [pc |-> "idle", closure |-> "month", timeRange |-> "month",
   stats |-> [total_activities |-> 0, total_duration |-> 0],
   loading |-> TRUE, refreshing |-> FALSE, error |-> Null, isUpdating |-> FALSE]

\* fetchActivityStats is called from the render on display: it reads that
\* render's timeRange; setError(null) runs before the first await.
fetchActivityStats_call(view) ==
  [view EXCEPT !.pc = "fetch", !.closure = view.timeRange, !.error = Null]

\* finally: setLoading(false); setRefreshing(false); then, back in
\* handleTimeRangeChange, setIsUpdating(false).
fetchActivityStats_finally(view) ==
  [view EXCEPT !.pc = "idle", !.loading = FALSE, !.refreshing = FALSE,
               !.isUpdating = FALSE]

\* The history record of a fetch that ended.
StatsEnded(op) ==
  [NoLast EXCEPT !.op = IF overall.isUpdating THEN "RANGE_" \o op ELSE op]

\* handleTimeRangeChange: setTimeRange(newRange); setIsUpdating(true);
\* await fetchActivityStats()
handleTimeRangeChange(newRange) ==
  /\ overall.pc = "idle"
  /\ ~overall.loading
  /\ overall' = [fetchActivityStats_call(overall) EXCEPT !.timeRange = newRange,
                                                         !.isUpdating = TRUE]
  /\ last' = [NoLast EXCEPT !.op = "RANGE"]
  /\ UNCHANGED <<activities, challenges, progress, tx, ui, notifications, events, inbox>>

\* handleRefresh of OverallActivity: setRefreshing(true); fetchActivityStats()
OverallActivity_handleRefresh ==
  /\ overall.pc = "idle"
  /\ ~overall.loading
  /\ overall' = [fetchActivityStats_call(overall) EXCEPT !.refreshing = TRUE]
  /\ last' = [NoLast EXCEPT !.op = "REFRESH"]
  /\ UNCHANGED <<activities, challenges, progress, tx, ui, notifications, events, inbox>>

\* "Try Again" of the error view: onPress={fetchActivityStats}
OverallActivity_tryAgain ==
  /\ overall.pc = "idle"
  /\ ~overall.loading
  /\ overall.error # Null
  /\ overall' = fetchActivityStats_call(overall)
  /\ last' = [NoLast EXCEPT !.op = "RETRY"]
  /\ UNCHANGED <<activities, challenges, progress, tx, ui, notifications, events, inbox>>

\* fetchActivityStats: if (!user) { setError('Not authenticated'); return; }
fetchActivityStats_notAuthenticated ==
  /\ overall.pc = "fetch"
  /\ session = Null
  /\ overall' = fetchActivityStats_finally(
                  [overall EXCEPT !.error = Some("Not authenticated")])
  /\ last' = StatsEnded("NO_USER")
  /\ UNCHANGED <<activities, challenges, progress, tx, ui, notifications, events, inbox>>

\* fetchActivityStats: a query fails; catch sets the error.
fetchActivityStats_error ==
  /\ overall.pc = "fetch"
  /\ session # Null
  /\ overall' = fetchActivityStats_finally(
                  [overall EXCEPT !.error = Some("Failed to load activity statistics")])
  /\ last' = StatsEnded("STATS_FAILED")
  /\ UNCHANGED <<activities, challenges, progress, tx, ui, notifications, events, inbox>>

\* fetchActivityStats to its end: the query for its timeRange, then setStats.
fetchActivityStats ==
  /\ overall.pc = "fetch"
  /\ session # Null
  /\ overall' = fetchActivityStats_finally(
                  [overall EXCEPT !.stats =
                     StatsOf(StatsRows(overall.closure, activities, session[1],
                                       StatsNow))])
  /\ last' = StatsEnded("STATS")
  /\ UNCHANGED <<activities, challenges, progress, tx, ui, notifications, events, inbox>>

TimeRanges == {"day", "week", "month"}

\* Activities as the view can find them: logged today for today or for
\* yesterday, earlier this week, this month more than a week ago, last month,
\* and by another user.
StatsDrawnRows ==
  {[user_id |-> "u1", activity_date |-> 28, created_at |-> Ts(28, 0), duration_minutes |-> 30],
   [user_id |-> "u1", activity_date |-> 27, created_at |-> Ts(28, 0), duration_minutes |-> 45],
   [user_id |-> "u1", activity_date |-> 28, created_at |-> Ts(25, 0), duration_minutes |-> 30],
   [user_id |-> "u1", activity_date |-> 27, created_at |-> Ts(25, 0), duration_minutes |-> 45],
   [user_id |-> "u1", activity_date |-> 27, created_at |-> Ts(20, 1), duration_minutes |-> 30],
   [user_id |-> "u1", activity_date |-> 27, created_at |-> Ts(19, 0), duration_minutes |-> 45],
   [user_id |-> "u2", activity_date |-> 28, created_at |-> Ts(28, 0), duration_minutes |-> 30]}

\* The view mounts (useEffect calls fetchActivityStats) over any activities
\* table of at most MaxActs rows.
InitStats ==
  /\ \E k \in 0..MaxActs : \E f \in [1..k -> StatsDrawnRows] :
       activities = {[id |-> i, user_id |-> f[i].user_id,
                      activity_date |-> f[i].activity_date,
                      created_at |-> f[i].created_at,
                      duration_minutes |-> f[i].duration_minutes] : i \in 1..k}
  /\ challenges = [c \in ChallengeIds |->
                     [start_date |-> Windows[c].start_date,
                      end_date |-> Windows[c].end_date,
                      status |-> "upcoming"]]
  /\ progress = ZeroRows(Enrolled)
  /\ tx = [t \in TxIds |-> IdleTx]
  /\ last = NoLast
  /\ session \in {Null, Some("u1")}
  /\ screen = Unmounted
  /\ sheet = ClosedSheets
  /\ notifications = {}
  /\ events = {}
  /\ inbox = Unmounted
  /\ overall = fetchActivityStats_call(OverallMounted)

NextStats ==
  \/ \E newRange \in TimeRanges : handleTimeRangeChange(newRange)
  \/ OverallActivity_handleRefresh
  \/ OverallActivity_tryAgain
  \/ fetchActivityStats_notAuthenticated
  \/ fetchActivityStats_error
  \/ fetchActivityStats

SpecStats == InitStats /\ [][NextStats]_vars

---------------------------------------------------------------------------
(* The notifications table and its emitters *)

MaxNotes == 4       \* notification ids are 1..MaxNotes

\* type IN ('like', 'comment', 'follow', 'event', 'challenge')
NotificationTypes == {"like", "comment", "follow", "event", "challenge"}

\* Table profiles: two members, a trainer and a staff member; u4 has no
\* display_name.
Profiles ==
  [u \in {"u1", "u2", "u3", "u4"} |->
     [display_name |-> IF u = "u4" THEN Null ELSE Some(<<u>>),
      role |-> IF u = "u2" THEN "trainer" ELSE IF u = "u3" THEN "staff" ELSE "member"]]

\* a || b of SQL: NULL if either side is NULL
Concat(a, b) == IF a = Null \/ b = Null THEN Null ELSE Some(a[1] \o b[1])

\* gen_random_uuid(): an id no row of the table has
NextNoteId(notes) ==
  CHOOSE i \in 1..(Cardinality(notes) + 1) : \A n \in notes : n.id # i

\* A notifications table that accepts any type.
NoteViolation_untyped(v) ==
  IF v.user_id = Null \/ v.type = Null \/ v.title = Null \/ v.message = Null
    THEN Some("23502")
  ELSE IF v.user_id[1] \notin DOMAIN Profiles THEN Some("23503")
  ELSE Null

\* The constraint a row of values violates, null when it violates none:
\* NOT NULL (23502), CHECK on type (23514), REFERENCES profiles (23503).
NoteViolation(v) ==
  IF v.user_id = Null \/ v.type = Null \/ v.title = Null \/ v.message = Null
    THEN Some("23502")
  ELSE IF v.type[1] \notin NotificationTypes THEN Some("23514")
  ELSE IF v.user_id[1] \notin DOMAIN Profiles THEN Some("23503")
  ELSE Null

\* The stored row: id, is_read and data take their defaults unless given.
NoteRow(id, v) ==
  [data |-> v.data, id |-> id, is_read |-> FALSE, message |-> v.message[1],
   title |-> v.title[1], type |-> v.type[1], user_id |-> v.user_id[1]]

\* INSERT INTO notifications (user_id, type, title, message, data) VALUES v
\* as one statement: the new table, or the same table and an error.
InsertNotification(op, v) ==
  /\ Cardinality(notifications) < MaxNotes
  /\ IF NoteViolation(v) # Null
       THEN /\ UNCHANGED notifications
            /\ last' = [NoLast EXCEPT !.op = op, !.given = <<v.user_id, v.type>>,
                                      !.error = NoteViolation(v)]
       ELSE /\ notifications' =
                 notifications \cup {NoteRow(NextNoteId(notifications), v)}
            /\ last' = [NoLast EXCEPT !.op = op, !.given = <<v.user_id, v.type>>,
                                      !.target = NextNoteId(notifications)]
  /\ UNCHANGED <<activities, challenges, progress, tx, ui, events, inbox, overall>>

\* select create_notification(p_user_id, p_type, p_title, p_message, p_data)
create_notification(p_user_id, p_type, p_title, p_message, p_data) ==
  InsertNotification("create_notification",
                     [data |-> p_data, message |-> p_message, title |-> p_title,
                      type |-> p_type, user_id |-> p_user_id])

\* An insert of the same columns sent to the table: the policy "System can
\* create notifications" lets every row pass.
notifications_insert(user_id, type, title, message, data) ==
  InsertNotification("insert",
                     [data |-> data, message |-> message, title |-> title,
                      type |-> type, user_id |-> user_id])

\* Recipients that include the event's creator.
EventAudience_all(NEW_row) ==
  {u \in DOMAIN Profiles : Profiles[u].role \in {"member", "trainer"}}

\* FROM profiles p WHERE p.role IN ('member', 'trainer') AND p.id != NEW.created_by
EventAudience(NEW_row) ==
  {u \in DOMAIN Profiles :
     /\ Profiles[u].role \in {"member", "trainer"}
     /\ u # NEW_row.created_by}

\* The values handle_event_notification() selects for recipient u.
EventNote(NEW_row, u) ==
  [data |-> Some(NEW_row.id),
   message |-> Concat(Concat(Some(<<"Join ">>), Profiles[NEW_row.created_by].display_name),
                      NEW_row.title),
   title |-> Concat(Some(<<"New Event: ">>), NEW_row.title),
   type |-> Some("event"), user_id |-> Some(u)]

\* The rows the trigger's INSERT ... SELECT adds for an event, with fresh ids.
EventNotes(NEW_row, notes) ==
  LET base == Cardinality(notes)
      order == CHOOSE f \in [1..Cardinality(EventAudience(NEW_row)) -> EventAudience(NEW_row)] :
                 \A i, j \in DOMAIN f : f[i] = f[j] => i = j
  IN  {NoteRow(base + i, EventNote(NEW_row, order[i])) : i \in DOMAIN order}

\* INSERT INTO events with its trigger event_notification_trigger (AFTER
\* INSERT FOR EACH ROW): the event and its notifications are stored together,
\* or a violated constraint aborts the statement.
InsertEvent(created_by, title) ==
  LET NEW_row == [created_by |-> created_by, id |-> Cardinality(events) + 1,
                  title |-> title]
      failed == {u \in EventAudience(NEW_row) : NoteViolation(EventNote(NEW_row, u)) # Null}
  IN
    /\ Cardinality(notifications) + Cardinality(EventAudience(NEW_row)) <= MaxNotes
    /\ IF failed # {}
         THEN /\ UNCHANGED <<events, notifications>>
              /\ last' = [NoLast EXCEPT !.op = "EVENT", !.user = created_by,
                                        !.error = Some("23502")]
         ELSE /\ events' = events \cup {NEW_row}
              /\ notifications' = notifications \cup EventNotes(NEW_row, notifications)
              /\ last' = [NoLast EXCEPT !.op = "EVENT", !.user = created_by,
                                        !.target = NEW_row.id]
    /\ UNCHANGED <<activities, challenges, progress, tx, ui, inbox, overall>>

\* Values sent by emitters: user ids (one of no profile), types (one outside
\* the list), texts, payloads.
EmitUsers == {Null, Some("u1"), Some("u9")}
EmitTypes == {Null, Some("system")} \cup {Some(t) : t \in NotificationTypes}
EmitTexts == {Null, Some(<<"text">>)}
EmitData == {Null}
EventCreators == {"u1", "u3", "u4"}
EventTitles == {Some(<<"Run">>)}

\* The tables as created.
InitEmit ==
  /\ activities = {}
  /\ challenges = [c \in ChallengeIds |->
                     [start_date |-> Windows[c].start_date,
                      end_date |-> Windows[c].end_date,
                      status |-> "upcoming"]]
  /\ progress = ZeroRows(Enrolled)
  /\ tx = [t \in TxIds |-> IdleTx]
  /\ last = NoLast
  /\ session = Null
  /\ screen = Unmounted
  /\ sheet = ClosedSheets
  /\ notifications = {}
  /\ events = {}
  /\ inbox = Unmounted
  /\ overall = Unmounted

NextEmit ==
  \/ \E u \in EmitUsers, t \in EmitTypes, title \in EmitTexts, message \in EmitTexts,
        d \in EmitData : create_notification(u, t, title, message, d)
  \/ \E u \in EmitUsers, t \in EmitTypes, title \in EmitTexts, message \in EmitTexts,
        d \in EmitData : notifications_insert(u, t, title, message, d)
  \/ \E u \in EventCreators, title \in EventTitles : InsertEvent(u, title)

SpecEmit == InitEmit /\ [][NextEmit]_vars

---------------------------------------------------------------------------
(* The notifications screen *)

\* useState of NotificationsScreen: the list, loading, refreshing and error;
\* fetch and data are the position and the answer of fetchNotifications,
\* press the notification whose handleNotificationPress awaits markAsRead,
\* route the last route pushed.
InboxMounted ==
  [notifications |-> {}, loading |-> TRUE, refreshing |-> FALSE, error |-> Null,
   fetch |-> "idle", data |-> {}, press |-> Null, update |-> "idle",
   route |-> Null]

\* The list is on display: not loading, no error view.
InboxListed ==
  /\ inbox # Unmounted
  /\ ~inbox.loading
  /\ inbox.error = Null

\* finally of fetchNotifications: setLoading(false); setRefreshing(false)
fetchNotifications_finally(view) ==
  [view EXCEPT !.fetch = "idle", !.data = {}, !.loading = FALSE,
               !.refreshing = FALSE]

\* fetchNotifications up to its query: getUser, then the select is sent.
fetchNotifications_call(view) == [view EXCEPT !.fetch = "sent"]

\* The rows the select returns to uid: .eq('user_id', user.id) under the
\* policy "Users can view their own notifications".
OwnNotifications(uid, notes) == {n \in notes : uid = Some(n.user_id)}

\* A local update that sets every copy read.
MarkRead_all(prev, notificationId) == {[n EXCEPT !.is_read = TRUE] : n \in prev}

\* prev.map((n) => n.id === notificationId ? { ...n, is_read: true } : n)
MarkRead(prev, notificationId) ==
  {IF n.id = notificationId THEN [n EXCEPT !.is_read = TRUE] ELSE n : n \in prev}

\* update({ is_read: true }).eq('id', notificationId) sent by uid, under the
\* policy "Users can update their own notifications".
UpdateIsRead(uid, notes, notificationId) ==
  {IF n.id = notificationId /\ uid = Some(n.user_id)
     THEN [n EXCEPT !.is_read = TRUE] ELSE n : n \in notes}

\* The route handleNotificationPress pushes for a notification, null when it
\* pushes none: <<path, id>>.  data holds the id of the payload: post_id,
\* follower_id or event_id according to the type.
Route(n) ==
  IF n.type \in {"like", "comment"}
    THEN IF n.data # Null THEN Some(<<"/post/", n.data[1]>>) ELSE Null
  ELSE IF n.type = "follow"
    THEN IF n.data # Null THEN Some(<<"/profile/", n.data[1]>>) ELSE Null
  ELSE IF n.type = "event"
    THEN IF n.data # Null THEN Some(<<"/(event)/", n.data[1]>>) ELSE Null
  ELSE Some(<<"/(tabs)/challenge", 0>>)

\* router.push of the route, if there is one.
Pushed(view, n) == IF Route(n) # Null THEN [view EXCEPT !.route = Route(n)] ELSE view

InboxUnchanged == UNCHANGED <<activities, challenges, progress, tx, ui, events, overall>>

\* The effect on mount: fetchNotifications()
NotificationsScreen_mount ==
  /\ inbox = Unmounted
  /\ inbox' = fetchNotifications_call(InboxMounted)
  /\ last' = [NoLast EXCEPT !.op = "MOUNT"]
  /\ UNCHANGED notifications
  /\ InboxUnchanged

\* handleRefresh of NotificationsScreen: setRefreshing(true); fetchNotifications()
NotificationsScreen_handleRefresh ==
  /\ InboxListed
  /\ inbox.fetch = "idle"
  /\ inbox' = [fetchNotifications_call(inbox) EXCEPT !.refreshing = TRUE]
  /\ last' = [NoLast EXCEPT !.op = "REFRESH"]
  /\ UNCHANGED notifications
  /\ InboxUnchanged

\* "Try Again": setLoading(true); setError(null); fetchNotifications()
NotificationsScreen_tryAgain ==
  /\ inbox # Unmounted
  /\ ~inbox.loading
  /\ inbox.error # Null
  /\ inbox.fetch = "idle"
  /\ inbox' = [fetchNotifications_call(inbox) EXCEPT !.loading = TRUE, !.error = Null]
  /\ last' = [NoLast EXCEPT !.op = "RETRY"]
  /\ UNCHANGED notifications
  /\ InboxUnchanged

\* fetchNotifications: if (!user) { setLoading(false); return; }, then finally
fetchNotifications_noUser ==
  /\ inbox # Unmounted
  /\ inbox.fetch = "sent"
  /\ session = Null
  /\ inbox' = fetchNotifications_finally(inbox)
  /\ last' = [NoLast EXCEPT !.op = "FETCH_NO_USER"]
  /\ UNCHANGED notifications
  /\ InboxUnchanged

\* The select of fetchNotifications is answered by the database.
fetchNotifications_select ==
  /\ inbox # Unmounted
  /\ inbox.fetch = "sent"
  /\ session # Null
  /\ inbox' = [inbox EXCEPT !.fetch = "answered",
                            !.data = OwnNotifications(session, notifications)]
  /\ last' = [NoLast EXCEPT !.op = "SELECT"]
  /\ UNCHANGED notifications
  /\ InboxUnchanged

\* fetchNotifications: the request fails: setError('Failed to load
\* notifications'), then finally.
fetchNotifications_error ==
  /\ inbox # Unmounted
  /\ inbox.fetch \in {"sent", "answered"}
  /\ session # Null
  /\ inbox' = [fetchNotifications_finally(inbox) EXCEPT
                 !.error = Some("Failed to load notifications")]
  /\ last' = [NoLast EXCEPT !.op = "FETCH_ERROR"]
  /\ UNCHANGED notifications
  /\ InboxUnchanged

\* fetchNotifications: the answer arrives: setNotifications(data || []), then
\* finally.
fetchNotifications ==
  /\ inbox # Unmounted
  /\ inbox.fetch = "answered"
  /\ inbox' = [fetchNotifications_finally(inbox) EXCEPT !.notifications = inbox.data]
  /\ last' = [NoLast EXCEPT !.op = "FETCH"]
  /\ UNCHANGED notifications
  /\ InboxUnchanged

\* handleNotificationPress(notification) on a row of the list: a read
\* notification is navigated to at once, an unread one after markAsRead,
\* whose update is sent here.
handleNotificationPress(notification) ==
  /\ InboxListed
  /\ inbox.press = Null
  /\ notification \in inbox.notifications
  /\ inbox' = IF notification.is_read
                THEN Pushed(inbox, notification)
                ELSE [inbox EXCEPT !.press = Some(notification), !.update = "sent"]
  /\ last' = [NoLast EXCEPT !.op = "PRESS", !.target = notification.id]
  /\ UNCHANGED notifications
  /\ InboxUnchanged

\* The update of markAsRead is executed by the database.
markAsRead_update ==
  /\ inbox # Unmounted
  /\ inbox.update = "sent"
  /\ notifications' = UpdateIsRead(session, notifications, inbox.press[1].id)
  /\ inbox' = [inbox EXCEPT !.update = "answered"]
  /\ last' = [NoLast EXCEPT !.op = "UPDATE", !.target = inbox.press[1].id]
  /\ InboxUnchanged

\* markAsRead: the update succeeded: the local copy is set read; back in
\* handleNotificationPress the route of the pressed notification is pushed.
markAsRead ==
  /\ inbox # Unmounted
  /\ inbox.update = "answered"
  /\ inbox' = [Pushed(inbox, inbox.press[1]) EXCEPT
                 !.notifications = MarkRead(inbox.notifications, inbox.press[1].id),
                 !.press = Null, !.update = "idle"]
  /\ last' = [NoLast EXCEPT !.op = "markAsRead", !.target = inbox.press[1].id]
  /\ UNCHANGED notifications
  /\ InboxUnchanged

\* markAsRead: the update failed: the catch logs the error; back in
\* handleNotificationPress the route of the pressed notification is pushed.
markAsRead_error ==
  /\ inbox # Unmounted
  /\ inbox.update \in {"sent", "answered"}
  /\ inbox' = [Pushed(inbox, inbox.press[1]) EXCEPT !.press = Null, !.update = "idle"]
  /\ last' = [NoLast EXCEPT !.op = "markAsRead_error", !.target = inbox.press[1].id]
  /\ UNCHANGED notifications
  /\ InboxUnchanged

\* The notifications of an event of u3 and one sent to u1 about a challenge.
InboxEvent == [created_by |-> "u3", id |-> 1, title |-> Some(<<"Run">>)]

InboxTable ==
  EventNotes(InboxEvent, {}) \cup
    {NoteRow(NextNoteId(EventNotes(InboxEvent, {})),
             [data |-> Null, message |-> Some(<<"text">>),
              title |-> Some(<<"text">>), type |-> Some("challenge"),
              user_id |-> Some("u1")])}

\* The tables after these emits, some of the notifications read already; the
\* screen is not open.
InitInbox ==
  /\ activities = {}
  /\ challenges = [c \in ChallengeIds |->
                     [start_date |-> Windows[c].start_date,
                      end_date |-> Windows[c].end_date,
                      status |-> "upcoming"]]
  /\ progress = ZeroRows(Enrolled)
  /\ tx = [t \in TxIds |-> IdleTx]
  /\ last = NoLast
  /\ session \in {Null, Some("u1")}
  /\ screen = Unmounted
  /\ sheet = ClosedSheets
  /\ \E read \in SUBSET {n.id : n \in InboxTable} :
       notifications = {[n EXCEPT !.is_read = (n.id \in read)] : n \in InboxTable}
  /\ events = {InboxEvent}
  /\ inbox = Unmounted
  /\ overall = Unmounted

NextInbox ==
  \/ NotificationsScreen_mount
  \/ NotificationsScreen_handleRefresh
  \/ NotificationsScreen_tryAgain
  \/ fetchNotifications_noUser
  \/ fetchNotifications_select
  \/ fetchNotifications_error
  \/ fetchNotifications
  \/ \E notification \in (IF inbox = Unmounted THEN {} ELSE inbox.notifications) :
       handleNotificationPress(notification)
  \/ markAsRead_update
  \/ markAsRead
  \/ markAsRead_error

SpecInbox == InitInbox /\ [][NextInbox]_vars

---------------------------------------------------------------------------
(* Claims C21..C30 *)

\* C21: a delete or update of an activity requested by a user other than its
\* owner is answered with an error, and the activities table and every
\* challenge_progress row stay as they were.
C21_NonOwnerMutationRejected ==
  [][\A a \in activities :
       (/\ last'.op \in {"UPDATE", "DELETE"}
        /\ last'.target = a.id
        /\ last'.uid # Null
        /\ last'.uid # Some(a.user_id))
       => (/\ last'.error # Null
           /\ activities' = activities
           /\ progress' = progress)]_vars

\* C22: at most one challenge has status active at any time.
C22_AtMostOneActive ==
  Cardinality({c \in DOMAIN challenges : challenges[c].status = "active"}) <= 1

\* C23: a challenge's status changes only through handleStatusChange on that
\* challenge, a new challenge starts as upcoming, and every status is one of
\* upcoming, active, completed.
C23_StatusOnlyByAdmin ==
  [][/\ (\A c \in DOMAIN challenges \cap DOMAIN challenges' :
            challenges'[c].status # challenges[c].status
              => (last'.op = "STATUS" /\ last'.cid = c))
      /\ (\A n \in DOMAIN challenges' \ DOMAIN challenges :
            challenges'[n].status = "upcoming")
      /\ (\A e \in DOMAIN challenges' :
            challenges'[e].status \in {"upcoming", "active", "completed"})]_vars

\* A challenge was created and is still upcoming, c1 was completed, an
\* activity is logged and the rankings were fetched.
C23_Witness ==
  /\ "c3" \in DOMAIN challenges
  /\ challenges["c3"].status = "upcoming"
  /\ challenges["c1"].status = "completed"
  /\ activities # {}
  /\ screen.pc = "idle"
  /\ screen.progress # <<>>

\* C25: an activity insert, update or delete of user u leaves every
\* challenge_progress row of another user, and every row of a challenge that
\* is not active, as it was.
C25_TriggerTouchesOwnActiveRowsOnly ==
  [][last'.op \in {"INSERT", "UPDATE", "DELETE"} =>
       \A cp \in progress :
         (\/ cp.user_id # last'.user
          \/ challenges[cp.challenge_id].status # "active")
         => cp \in progress']_vars

\* u1 logged an activity on day 1 while both challenges were active, c2 was
\* completed, and u1 deleted the activity: the row of c1 went back to 0, the
\* row of c2 kept its 1, the row of u2 was never touched.
C25_Witness ==
  /\ last.op = "DELETE"
  /\ last.user = "u1"
  /\ activities = {}
  /\ challenges["c2"].status = "completed"
  /\ [user_id |-> "u1", challenge_id |-> "c1", current_value |-> 0] \in progress
  /\ [user_id |-> "u1", challenge_id |-> "c2", current_value |-> 1] \in progress
  /\ [user_id |-> "u2", challenge_id |-> "c1", current_value |-> 0] \in progress

\* C27: the rankings screen ranks the challenge its status = active query
\* returned first; when that query returns no challenge it reports 'No active
\* challenge found', runs no challenge_progress query and shows no ranking;
\* and however fetchData ends, loading and refreshing are false.
C27_SingleActiveChallengeRanked ==
  [][/\ (last'.op = "CHALLENGE" =>
           (/\ challenges[last'.cid].status = "active"
            /\ screen'.challenge = Some(last'.cid)
            /\ screen'.pc = "progress"))
     /\ (last'.op = "FETCH" =>
           (/\ screen.challenge = screen'.challenge
            /\ Range(screen'.progress) =
                 {[user_id |-> cp.user_id, current_value |-> cp.current_value] :
                    cp \in RowsOf(screen.challenge[1])}))
     /\ ((/\ screen.pc = "challenges"
          /\ screen'.pc # "challenges"
          /\ \A c \in DOMAIN challenges : challenges[c].status # "active"
          /\ last'.op # "FETCH_FAILED") =>
           (/\ screen'.error = Some("No active challenge found")
            /\ screen'.pc = "idle"
            /\ screen'.progress = screen.progress
            /\ screen'.challenge = screen.challenge
            /\ ~ListShown(screen')))
     /\ ((screen.pc # "idle" /\ screen'.pc = "idle") =>
           (~screen'.loading /\ ~screen'.refreshing))]_vars

\* The list was on display, every challenge was then deactivated, and the
\* refresh found no active challenge.
C27_Witness ==
  /\ last.op = "NO_CHALLENGE"
  /\ screen.challenge # Null
  /\ screen.progress # <<>>
  /\ screen.error = Some("No active challenge found")
  /\ ~screen.loading
  /\ ~screen.refreshing

\* C28: once a fetch of the rankings succeeds, no error is left on the screen
\* and the ranking list is on display, whatever failed before it.
C28_RetryClearsError ==
  last.op = "FETCH" =>
    (screen.error = Null /\ ~screen.loading /\ screen.challenge # Null)

\* The activities of the signed-in user that fall into a time range of the
\* overall-activity view: dated today; logged in the last seven days; logged
\* since the first of the month.
InRange(a, range) ==
  /\ a.user_id = session[1]
  /\ IF range = "day" THEN a.activity_date = StatsNow \div TicksPerDay
     ELSE /\ a.created_at <= StatsNow
          /\ a.created_at >=
               (IF range = "week" THEN StatsNow - 7 * TicksPerDay
                ELSE StatsNow - ((StatsNow \div TicksPerDay) % 10) * TicksPerDay)

RECURSIVE DurationUpTo(_, _)
\* The minutes of the activities with ids 1..i that fall into a time range.
DurationUpTo(i, range) ==
  IF i = 0 THEN 0
  ELSE DurationUpTo(i - 1, range) +
       (IF \E a \in activities : a.id = i /\ InRange(a, range)
          THEN (CHOOSE a \in activities : a.id = i).duration_minutes
          ELSE 0)

\* C29: when the fetch that follows the selection of a time range completes,
\* the totals on display are those of the selected range.
C29_TotalsOfSelectedRange ==
  last.op = "RANGE_STATS" =>
    /\ overall.stats.total_activities =
         Cardinality({a \in activities : InRange(a, overall.timeRange)})
    /\ overall.stats.total_duration = DurationUpTo(MaxActs, overall.timeRange)

\* C24: every stored notification has one of the five types and starts
\* unread; an emit with another type is rejected and stores nothing, and an
\* emit that succeeds stores exactly one row, for the given user, unread.
C24_NotificationsTypedAndUnread ==
  [][/\ (\A n \in notifications' \ notifications :
           /\ n.type \in {"like", "comment", "follow", "event", "challenge"}
           /\ n.is_read = FALSE)
     /\ (last'.op \in {"create_notification", "insert"} =>
           LET user_id == last'.given[1]
               type == last'.given[2]
               other == IF type = Null THEN TRUE
                        ELSE type[1] \notin {"like", "comment", "follow",
                                              "event", "challenge"}
           IN  /\ other => last'.error # Null
               /\ last'.error # Null => notifications' = notifications
               /\ last'.error = Null =>
                    \E n \in notifications' \ notifications :
                      /\ notifications' = notifications \cup {n}
                      /\ n.user_id = user_id[1]
                      /\ n.type = type[1]
                      /\ n.is_read = FALSE)]_vars

\* An emit of type 'system' was rejected after three emits had been stored.
C24_Witness ==
  /\ last.op = "create_notification"
  /\ last.given = <<Some("u1"), Some("system")>>
  /\ last.error # Null
  /\ Cardinality(notifications) = 3
  /\ \E n \in notifications : n.type = "challenge" /\ n.user_id = "u1"

\* C26: an event is stored together with exactly one notification of type
\* 'event' for every member and trainer other than its creator, each carrying
\* the event's id; nobody else gets one.
C26_EventNotifiesMembersAndTrainers ==
  [][/\ (events' # events => (last'.op = "EVENT" /\ last'.error = Null))
     /\ ((last'.op = "EVENT" /\ last'.error = Null) =>
           \E e \in events' \ events :
             /\ events' = events \cup {e}
             /\ e.created_by = last'.user
             /\ notifications \subseteq notifications'
             /\ \A u \in DOMAIN Profiles :
                  Cardinality({n \in notifications' \ notifications : n.user_id = u})
                    = IF Profiles[u].role \in {"member", "trainer"} /\ u # e.created_by
                        THEN 1 ELSE 0
             /\ \A n \in notifications' \ notifications :
                  /\ n.type = "event"
                  /\ n.data = Some(e.id)
                  /\ n.is_read = FALSE)]_vars

\* The member u1 created an event: u2 and u4 were notified, u1 and the staff
\* member u3 were not.
C26_Witness ==
  /\ last.op = "EVENT"
  /\ last.user = "u1"
  /\ last.error = Null
  /\ {n.user_id : n \in {m \in notifications : m.data = Some(last.target)}}
       = {"u2", "u4"}

====
